---- MODULE Spec2Model ----
(***************************************************************************)
(* Model of src/frontend/composables/useVersionCheck.ts: the version       *)
(* resolver (Update Service first, Public Release API as fallback), the    *)
(* dismissal ledger, the one-click update state machine and the link       *)
(* opener.                                                                 *)
(*                                                                         *)
(* Strings are sequences of one-character strings.  A nullable value is a  *)
(* sequence of length at most one: <<>> is null, <<x>> is x.               *)
(*                                                                         *)
(* Every async function is run by a task.  A task's stack holds the await  *)
(* it is suspended at (its head) and the continuations of its callers.     *)
(* One action is one turn of the event loop: the answer to the awaited     *)
(* external call arrives and the code runs, through every return and every *)
(* finally block, up to the next external await or the end of the call.    *)
(***************************************************************************)
EXTENDS Integers, Sequences, FiniteSets, TLC

\* ------------------------------------------------------------------ bounds
NumTasks == 2
MaxTagLen == 3
MaxTime == 1
MaxCalls == 2
MaxSegments == 3
MaxItems == 2

Tasks == 1..NumTasks

\* ----------------------------------------------------------------- strings
Digits == {"0", "1", "2", "3", "4", "5", "6", "7", "8", "9"}

DigitVal(c) ==
  CASE c = "0" -> 0 [] c = "1" -> 1 [] c = "2" -> 2 [] c = "3" -> 3
    [] c = "4" -> 4 [] c = "5" -> 5 [] c = "6" -> 6 [] c = "7" -> 7
    [] c = "8" -> 8 [] c = "9" -> 9

\* The characters tags are drawn from: "v", two digits, the dot, and a
\* character ("b") that is neither "v" nor a digit nor a dot.
TagChars == {"v", "1", "2", ".", "b"}

RECURSIVE SeqsUpTo(_, _)
SeqsUpTo(S, n) ==
  IF n = 0 THEN {<<>>}
  ELSE LET shorter == SeqsUpTo(S, n - 1)
       IN shorter \cup {Append(s, c) : s \in {t \in shorter : Len(t) = n - 1}, c \in S}

\* String.prototype.replace(/^v/, ''): drops one leading "v".
StripLeadingV(s) ==
  IF Len(s) > 0 /\ Head(s) = "v" THEN Tail(s) ELSE s

\* String.prototype.replace(/[^\d.]/g, ''): drops, one by one, every
\* character that is neither an ASCII digit nor a dot.
RECURSIVE StripNonNumeric(_)
StripNonNumeric(s) ==
  IF s = <<>> THEN <<>>
  ELSE IF Head(s) \in Digits \cup {"."}
       THEN <<Head(s)>> \o StripNonNumeric(Tail(s))
       ELSE StripNonNumeric(Tail(s))

\* Mutant of NormalizeTag: the global replace forgotten.
NormalizeTagPrefixOnly(tag) == StripLeadingV(tag)

\* latestVersion.replace(/^v/, '').replace(/[^\d.]/g, '')
NormalizeTag(tag) == StripNonNumeric(StripLeadingV(tag))

\* String.prototype.split('.')
RECURSIVE SplitDots(_, _)
SplitDots(s, cur) ==
  IF s = <<>> THEN <<cur>>
  ELSE IF Head(s) = "." THEN <<cur>> \o SplitDots(Tail(s), <<>>)
       ELSE SplitDots(Tail(s), Append(cur, Head(s)))

RECURSIVE DecimalValue(_, _)
DecimalValue(s, acc) ==
  IF s = <<>> THEN acc ELSE DecimalValue(Tail(s), 10 * acc + DigitVal(Head(s)))

AllDigits(s) == \A i \in 1..Len(s) : s[i] \in Digits

\* Number(segment) on the characters of the model: the empty string is 0, a
\* digit string its decimal value, a signed digit string its signed value and
\* anything else NaN.
ToNumber(seg) ==
  IF seg = <<>> THEN [nan |-> FALSE, val |-> 0]
  ELSE IF AllDigits(seg) THEN [nan |-> FALSE, val |-> DecimalValue(seg, 0)]
  ELSE IF Head(seg) = "-" /\ Len(seg) > 1 /\ AllDigits(Tail(seg))
       THEN [nan |-> FALSE, val |-> 0 - DecimalValue(Tail(seg), 0)]
  ELSE [nan |-> TRUE, val |-> 0]

\* Mutant of PartOrZero: a segment counts as its first digit.
PartOrZeroFirstDigit(parts, i) ==
  IF i > Len(parts) THEN 0
  ELSE IF parts[i] # <<>> /\ parts[i][1] \in Digits THEN DigitVal(parts[i][1]) ELSE 0

\* parts[i] || 0: NaN, 0 and undefined (an index past the end) all give 0.
PartOrZero(parts, i) ==
  IF i > Len(parts) THEN 0
  ELSE LET n == ToNumber(parts[i]) IN IF n.nan THEN 0 ELSE n.val

Max(a, b) == IF a >= b THEN a ELSE b

\* Mutant of CompareFrom: the version with fewer segments is the smaller one.
RECURSIVE CompareFromByLength(_, _, _)
CompareFromByLength(p1, p2, i) ==
  IF i > Len(p1) /\ i > Len(p2) THEN 0
  ELSE IF i > Len(p2) THEN 1
  ELSE IF i > Len(p1) THEN -1
  ELSE IF PartOrZero(p1, i) > PartOrZero(p2, i) THEN 1
  ELSE IF PartOrZero(p1, i) < PartOrZero(p2, i) THEN -1
  ELSE CompareFromByLength(p1, p2, i + 1)

RECURSIVE CompareFrom(_, _, _)
CompareFrom(p1, p2, i) ==
  IF i > Max(Len(p1), Len(p2)) THEN 0
  ELSE IF PartOrZero(p1, i) > PartOrZero(p2, i) THEN 1
  ELSE IF PartOrZero(p1, i) < PartOrZero(p2, i) THEN -1
  ELSE CompareFrom(p1, p2, i + 1)

compareVersions(version1, version2) ==
  CompareFrom(SplitDots(version1, <<>>), SplitDots(version2, <<>>), 1)


\* ------------------------------------------------------- values of the model
Null == <<>>
Some(x) == <<x>>

\* The version token of the host's app info (get_app_info), and the version
\* getCurrentVersion falls back to.
CurrentVersion == <<"1", ".", "0", ".", "0">>
FallbackVersion == <<"0", ".", "2", ".", "0">>
VersionX == <<"1", ".", "1">>

\* What the Update Service (check_for_updates) can answer with: an UpdateInfo.
UpdateInfoOf(available, latest) ==
  [available |-> available, current_version |-> CurrentVersion,
   latest_version |-> latest, release_notes |-> "service notes",
   download_url |-> "service url", network_status |-> Some("service status")]

ServiceAnswers ==
  {UpdateInfoOf(TRUE, VersionX), UpdateInfoOf(FALSE, CurrentVersion)}

\* The tags the Public Release API can answer with: a newer release under a
\* decorated tag, and the running release.
ReleaseTags == {<<"b", "v", "1", ".", "1">>, <<"v", "1", ".", "0", ".", "0">>}

\* What each external call can be answered with.
ServiceOutcomes ==
  {[ok |-> TRUE, info |-> a] : a \in ServiceAnswers}
    \cup {[ok |-> FALSE, info |-> UpdateInfoOf(FALSE, CurrentVersion)]}

\* (appInfoOk: get_app_info answers the fallback's getCurrentVersion.)
GithubOutcomes ==
  {[ok |-> TRUE, tag |-> t, appInfoOk |-> a] : t \in ReleaseTags, a \in BOOLEAN}
    \cup {[ok |-> FALSE, tag |-> <<>>, appInfoOk |-> TRUE]}

ListenError == <<"listen failed">>
ManualDownloadError == <<"manual download required">>
InstallErrors == {<<"install failed">>, ManualDownloadError}
NoUpdateError == <<"no update available">>

\* The payloads of progress events: half way and done, each with the total
\* length known or absent.
ProgressPayloads ==
  {[chunk_length |-> 1, content_length |-> c, downloaded |-> d, percentage |-> 50 * d] :
     c \in {Null, Some(2)}, d \in {1, 2}}

EventKinds ==
  <<"update_download_progress", "update_install_started",
    "update_install_finished", "update_manual_download_required">>

Urls == {<<"u">>, <<"u", "2">>, <<"w">>}

\* The storage slot sanshu_cancelled_versions.
Absent == [kind |-> "absent", items |-> <<>>]
Corrupt == [kind |-> "corrupt", items |-> <<>>]
JsonArray(items) == [kind |-> "array", items |-> items]
\* Further contents: the empty string; the JSON values null, a number or
\* boolean, an object; and a JSON string, items holding its characters.
EmptyText == [kind |-> "empty", items |-> <<>>]
JsonNull == [kind |-> "null", items |-> <<>>]
JsonScalar == [kind |-> "scalar", items |-> <<>>]
JsonObject == [kind |-> "object", items |-> <<>>]
JsonString(chars) == [kind |-> "string", items |-> chars]

Range(s) == {s[i] : i \in 1..Len(s)}

\* ------------------------------------------------------------------- state
VARIABLES
  versionInfo,        \* ref<VersionInfo | null>
  isChecking,
  lastCheckTime,      \* ref<Date | null>, in hours
  isUpdating,
  updateProgress,     \* ref<UpdateProgress | null>
  updateStatus,
  showUpdateModal,
  autoCheckEnabled,
  cancelledVersions,  \* ref<Set<string>>: in insertion order, without duplicates
  storage,            \* localStorage's slot
  listeners,          \* the registered event listeners: <<call, event kind>>
  calls,              \* the admitted performOneClickUpdate calls so far
  now,                \* Date.now(), in hours
  stack,              \* per task: the await it is at, then its callers' continuations
  obs,                \* per task: what its call in progress has seen
  lastReturn,         \* history: the call that returned in the last step, if any
  ledgerHistory,      \* history: per version, what became of its dismissal
  installer,          \* the Installer's run: what it has emitted so far
  lastEvent,          \* history: the event handled in the last step, if any
  input,              \* the arguments a function is applied to on its own
  output              \* and the value it returned

progVars ==
  <<versionInfo, isChecking, lastCheckTime, isUpdating, updateProgress,
    updateStatus, showUpdateModal, autoCheckEnabled, cancelledVersions,
    storage, listeners, calls>>
vars ==
  <<progVars, now, stack, obs, lastReturn, ledgerHistory, installer, lastEvent,
    input, output>>

\* The program's shared state as one record, for the operators that run code.
G ==
  [versionInfo |-> versionInfo, isChecking |-> isChecking,
   lastCheckTime |-> lastCheckTime, isUpdating |-> isUpdating,
   updateProgress |-> updateProgress, updateStatus |-> updateStatus,
   showUpdateModal |-> showUpdateModal, autoCheckEnabled |-> autoCheckEnabled,
   cancelledVersions |-> cancelledVersions, storage |-> storage,
   listeners |-> listeners, calls |-> calls, now |-> now]

Commit(g) ==
  /\ versionInfo' = g.versionInfo
  /\ isChecking' = g.isChecking
  /\ lastCheckTime' = g.lastCheckTime
  /\ isUpdating' = g.isUpdating
  /\ updateProgress' = g.updateProgress
  /\ updateStatus' = g.updateStatus
  /\ showUpdateModal' = g.showUpdateModal
  /\ autoCheckEnabled' = g.autoCheckEnabled
  /\ cancelledVersions' = g.cancelledVersions
  /\ storage' = g.storage
  /\ listeners' = g.listeners
  /\ calls' = g.calls

\* A frame of a task's stack.
Frame(at) == [at |-> at, orig |-> FALSE, n |-> 0, call |-> 0, url |-> <<>>]

\* What a finished call gave its caller.  info and shown record, for
\* autoCheckUpdate, the VersionInfo it decided on and whether it assigned
\* showUpdateModal = true; the function itself returns flag.
NoResult ==
  [kind |-> "none", info |-> Null, flag |-> FALSE, err |-> <<>>, shown |-> FALSE]
Resolved(info, flag, shown) ==
  [kind |-> "resolved", info |-> info, flag |-> flag, err |-> <<>>, shown |-> shown]
Rejected(err) ==
  [kind |-> "rejected", info |-> Null, flag |-> FALSE, err |-> err, shown |-> FALSE]

\* The outcome of running code: the shared state, the task's stack and, when
\* the task's call has ended, its result.
Run(g, stk) == [g |-> g, stk |-> stk, res |-> Null]
End(g, r) == [g |-> g, stk |-> <<>>, res |-> Some(r)]

\* ------------------------------------------------------ the dismissal ledger
\* new Set(iterable): the items in order, each once.
RECURSIVE Distinct(_)
Distinct(items) ==
  IF items = <<>> THEN <<>>
  ELSE LET front == Distinct(SubSeq(items, 1, Len(items) - 1))
           last == items[Len(items)]
       IN IF \E i \in 1..Len(front) : front[i] = last THEN front ELSE Append(front, last)

\* Mutant of loadCancelledVersions: the stored array is not read back.
loadCancelledVersionsEmpty(slot) == <<>>

\* loadCancelledVersions: an absent or empty slot (falsy) and a slot
\* JSON.parse rejects give the empty set.  Otherwise the parsed value goes to
\* new Set(...): an array gives the set of its items, a string the set of
\* its characters, null the empty set, and a number, a boolean or an object
\* is not iterable: the TypeError is caught, and the set is empty.
loadCancelledVersions(slot) ==
  CASE slot.kind = "array" -> Distinct(slot.items)
    [] slot.kind = "string" -> Distinct([i \in 1..Len(slot.items) |-> <<slot.items[i]>>])
    [] OTHER -> <<>>

\* Mutant of saveCancelledVersions: the versions are added to the stored array.
saveCancelledVersionsAppending(slot, versions, writeOk) ==
  IF writeOk
  THEN JsonArray((IF slot.kind = "array" THEN slot.items ELSE <<>>) \o versions)
  ELSE slot

\* saveCancelledVersions: writes JSON.stringify(Array.from(versions)); a
\* failing setItem is caught and logged, and the slot keeps its content.
saveCancelledVersions(slot, versions, writeOk) ==
  IF writeOk THEN JsonArray(versions) ELSE slot

\* Set.prototype.add
SetAdd(versions, v) ==
  IF v \in Range(versions) THEN versions ELSE Append(versions, v)

\* ------------------------------------------------------ the version resolver
getCurrentVersion(appInfoOk) ==
  IF appInfoOk THEN CurrentVersion ELSE FallbackVersion

mapUpdateInfoToVersionInfo(updateInfo) ==
  [current |-> updateInfo.current_version, latest |-> updateInfo.latest_version,
   hasUpdate |-> updateInfo.available, releaseUrl |-> updateInfo.download_url,
   releaseNotes |-> updateInfo.release_notes,
   networkStatus |-> updateInfo.network_status]

\* The VersionInfo checkLatestVersionViaGithub builds from a release.
GithubInfo(tag, appInfoOk) ==
  LET latestVersion == NormalizeTag(tag)
      currentVersion == getCurrentVersion(appInfoOk)
  IN [current |-> currentVersion, latest |-> latestVersion,
      hasUpdate |-> compareVersions(latestVersion, currentVersion) > 0,
      releaseUrl |-> "html url", releaseNotes |-> "release body",
      networkStatus |-> Null]

\* The UpdateInfo checkForUpdatesWithTauri builds from the fallback's answer.
FallbackUpdateInfo(githubInfo) ==
  [available |-> TRUE, current_version |-> githubInfo.current,
   latest_version |-> githubInfo.latest, release_notes |-> githubInfo.releaseNotes,
   download_url |-> githubInfo.releaseUrl,
   network_status |-> Some("default status")]

\* Ret(g, stk, v): a function returns v to the continuation at the head of
\* stk, with the shared state g.
RECURSIVE Ret(_, _, _)

\* checkForUpdatesWithTauri, called: the await of invoke('check_for_updates').
CallCheckForUpdatesWithTauri(g, stk) == Run(g, <<Frame("cft_invoke")>> \o stk)

\* checkLatestVersionViaGithub, called: the await of fetch (and, with it, of
\* response.json() and getCurrentVersion(), between which the function
\* touches no shared state).
CallCheckLatestVersionViaGithub(g, stk) == Run(g, <<Frame("gh_fetch")>> \o stk)

\* checkForUpdatesWithTauri, lines 312-328: the invoke answered.
ServiceAnswered(g, stk, ans) ==
  IF ans.ok THEN Ret(g, stk, Some(ans.info))
  ELSE CallCheckLatestVersionViaGithub(g, <<Frame("cft_github")>> \o stk)

\* checkForUpdatesWithTauri, lines 328-348: the fallback returned.
AfterFallback(g, stk, githubInfo) ==
  IF githubInfo # Null /\ githubInfo[1].hasUpdate
  THEN Ret(g, stk, Some(FallbackUpdateInfo(githubInfo[1])))
  ELSE Ret(g, stk, Null)

\* checkLatestVersionViaGithub, lines 153-183: the fetch answered.
GithubAnswered(g, stk, ans) ==
  IF ans.ok
  THEN LET info == GithubInfo(ans.tag, ans.appInfoOk)
       IN Ret([g EXCEPT !.versionInfo = Some(info), !.lastCheckTime = Some(g.now)],
              stk, Some(info))
  ELSE Ret(g, stk, Null)

\* Mutant of CallCheckLatestVersion: the isChecking guard is missing.
CallCheckLatestVersionUnguarded(g, stk) ==
  CallCheckForUpdatesWithTauri([g EXCEPT !.isChecking = TRUE],
                               <<Frame("clv_cft")>> \o stk)

\* checkLatestVersion, lines 190-198.
CallCheckLatestVersion(g, stk) ==
  IF g.isChecking THEN Ret(g, stk, g.versionInfo)
  ELSE CallCheckForUpdatesWithTauri([g EXCEPT !.isChecking = TRUE],
                                    <<Frame("clv_cft")>> \o stk)

\* Mutant of AfterServiceCheck: the cached record is refreshed field by
\* field, latest and hasUpdate only.
AfterServiceCheckMerging(g, stk, updateInfo) ==
  IF updateInfo # Null
  THEN LET built == mapUpdateInfoToVersionInfo(updateInfo[1])
           info == IF g.versionInfo = Null THEN built
                   ELSE [g.versionInfo[1] EXCEPT !.latest = built.latest,
                                                 !.hasUpdate = built.hasUpdate]
       IN Ret([g EXCEPT !.versionInfo = Some(info), !.lastCheckTime = Some(g.now),
                        !.isChecking = FALSE],
              stk, Some(info))
  ELSE CallCheckLatestVersionViaGithub(g, <<Frame("clv_gh")>> \o stk)

\* checkLatestVersion, lines 199-214: checkForUpdatesWithTauri returned.
AfterServiceCheck(g, stk, updateInfo) ==
  IF updateInfo # Null
  THEN LET info == mapUpdateInfoToVersionInfo(updateInfo[1])
       IN Ret([g EXCEPT !.versionInfo = Some(info), !.lastCheckTime = Some(g.now),
                        !.isChecking = FALSE],
              stk, Some(info))
  ELSE CallCheckLatestVersionViaGithub(g, <<Frame("clv_gh")>> \o stk)

\* checkLatestVersion, lines 210-214: the second fallback returned.
AfterGithubCheck(g, stk, info) == Ret([g EXCEPT !.isChecking = FALSE], stk, info)

\* ------------------------------------------------- the callers of the resolver
\* 60 * 60 * 1000 ms, in hours.
StalenessWindow == 1

Has(versions, v) == v \in Range(versions)

CheckedRecently(g) ==
  g.lastCheckTime # Null /\ g.now - g.lastCheckTime[1] < StalenessWindow

\* Mutant of AutoCheckCached: the ledger is read from the slot again.
AutoCheckCachedReloading(g) ==
  LET ledger == loadCancelledVersions(g.storage)
      hasUpdate == g.versionInfo # Null /\ g.versionInfo[1].hasUpdate
      show == /\ hasUpdate
              /\ ~g.showUpdateModal
              /\ g.versionInfo[1].latest # <<>>
              /\ ~Has(ledger, g.versionInfo[1].latest)
  IN End([g EXCEPT !.cancelledVersions = ledger,
                   !.showUpdateModal = IF show THEN TRUE ELSE @],
         Resolved(g.versionInfo, hasUpdate, show))

\* autoCheckUpdate, lines 225-232: checked within the last hour.
AutoCheckCached(g) ==
  LET hasUpdate == g.versionInfo # Null /\ g.versionInfo[1].hasUpdate
      show == /\ hasUpdate
              /\ ~g.showUpdateModal
              /\ g.versionInfo[1].latest # <<>>
              /\ ~Has(g.cancelledVersions, g.versionInfo[1].latest)
  IN End([g EXCEPT !.showUpdateModal = IF show THEN TRUE ELSE @],
         Resolved(g.versionInfo, hasUpdate, show))

\* Mutant of StartAutoCheckUpdate: the last check's time is not looked at.
StartAutoCheckUpdateAlwaysFresh(g) ==
  IF ~g.autoCheckEnabled THEN End(g, Resolved(Null, FALSE, FALSE))
  ELSE CallCheckLatestVersion(g, <<Frame("acu_clv")>>)

\* autoCheckUpdate, lines 218-235.
StartAutoCheckUpdate(g) ==
  IF ~g.autoCheckEnabled THEN End(g, Resolved(Null, FALSE, FALSE))
  ELSE IF CheckedRecently(g) THEN AutoCheckCached(g)
  ELSE CallCheckLatestVersion(g, <<Frame("acu_clv")>>)

\* autoCheckUpdate, lines 235-243: checkLatestVersion returned.
AfterAutoCheck(g, info) ==
  IF info # Null /\ info[1].hasUpdate /\ ~Has(g.cancelledVersions, info[1].latest)
  THEN End([g EXCEPT !.showUpdateModal = TRUE], Resolved(info, TRUE, TRUE))
  ELSE End(g, Resolved(info, FALSE, FALSE))

\* silentCheckUpdate, lines 252-257.
StartSilentCheckUpdate(g) ==
  CallCheckLatestVersion([g EXCEPT !.autoCheckEnabled = FALSE],
                         <<[Frame("scu_clv") EXCEPT !.orig = g.autoCheckEnabled]>>)

\* Mutant of AfterSilentCheck: a reported update shows the prompt, as in
\* manualCheckUpdate.
AfterSilentCheckShowing(g, frame, info) ==
  LET hasUpdate == info # Null /\ info[1].hasUpdate
  IN End([g EXCEPT !.autoCheckEnabled = frame.orig,
                   !.showUpdateModal = IF hasUpdate THEN TRUE ELSE @],
         Resolved(info, hasUpdate, hasUpdate))

\* silentCheckUpdate, lines 257-262: checkLatestVersion returned.
AfterSilentCheck(g, frame, info) ==
  End([g EXCEPT !.autoCheckEnabled = frame.orig],
      Resolved(info, info # Null /\ info[1].hasUpdate, FALSE))

\* getVersionInfo, lines 266-268 and 277.
StartGetVersionInfo(g) ==
  IF g.versionInfo = Null THEN Run(g, <<Frame("gvi_appinfo")>>)
  ELSE End(g, Resolved(g.versionInfo, FALSE, FALSE))

\* getVersionInfo, lines 268-277: getCurrentVersion returned.
AppInfoAnswered(g, appInfoOk) ==
  LET currentVersion == getCurrentVersion(appInfoOk)
      info == [current |-> currentVersion, latest |-> currentVersion,
               hasUpdate |-> FALSE, releaseUrl |-> "", releaseNotes |-> "",
               networkStatus |-> Null]
  IN End([g EXCEPT !.versionInfo = Some(info)], Resolved(Some(info), FALSE, FALSE))

\* manualCheckUpdate, lines 444-450.
StartManualCheckUpdate(g, writeOk) ==
  CallCheckLatestVersion(
    [g EXCEPT !.cancelledVersions = <<>>,
              !.storage = saveCancelledVersions(g.storage, <<>>, writeOk)],
    <<Frame("mcu_clv")>>)

\* Mutant of AfterManualCheck: the manual check does not show the prompt.
AfterManualCheckSilent(g, info) == End(g, Resolved(info, FALSE, FALSE))

\* manualCheckUpdate, lines 450-457: checkLatestVersion returned.
AfterManualCheck(g, info) ==
  IF info # Null /\ info[1].hasUpdate
  THEN End([g EXCEPT !.showUpdateModal = TRUE], Resolved(info, FALSE, TRUE))
  ELSE End(g, Resolved(info, FALSE, FALSE))

\* Mutant of dismissUpdateCode: a failed write is not caught, and ends the
\* call before the ledger and the prompt are touched.
dismissUpdateCodeAborting(g, writeOk) ==
  IF g.versionInfo # Null /\ g.versionInfo[1].latest # <<>>
  THEN IF writeOk
       THEN LET added == SetAdd(g.cancelledVersions, g.versionInfo[1].latest)
            IN [g EXCEPT !.cancelledVersions = added,
                         !.storage = saveCancelledVersions(g.storage, added, writeOk),
                         !.showUpdateModal = FALSE]
       ELSE g
  ELSE [g EXCEPT !.showUpdateModal = FALSE]

\* dismissUpdate, lines 434-441.
dismissUpdateCode(g, writeOk) ==
  IF g.versionInfo # Null /\ g.versionInfo[1].latest # <<>>
  THEN LET added == SetAdd(g.cancelledVersions, g.versionInfo[1].latest)
       IN [g EXCEPT !.cancelledVersions = added,
                    !.storage = saveCancelledVersions(g.storage, added, writeOk),
                    !.showUpdateModal = FALSE]
  ELSE [g EXCEPT !.showUpdateModal = FALSE]

\* --------------------------------------------------- the update state machine
\* Mutant of StartPerformOneClickUpdate: a cached "update available" is
\* trusted, and the availability check skipped.
StartPerformOneClickUpdateTrusting(g) ==
  IF g.isUpdating THEN End(g, Resolved(Null, FALSE, FALSE))
  ELSE LET g1 == [g EXCEPT !.isUpdating = TRUE, !.updateStatus = "checking",
                           !.updateProgress = Null, !.calls = @ + 1]
       IN IF g.versionInfo # Null /\ g.versionInfo[1].hasUpdate
          THEN Run(g1, <<[Frame("pou_listen") EXCEPT !.call = g.calls + 1, !.n = 1]>>)
          ELSE CallCheckForUpdatesWithTauri(
                 g1, <<[Frame("pou_cft") EXCEPT !.call = g.calls + 1]>>)

\* Mutant of StartPerformOneClickUpdate: the isUpdating guard is missing.
StartPerformOneClickUpdateUnguarded(g) ==
  CallCheckForUpdatesWithTauri(
    [g EXCEPT !.isUpdating = TRUE, !.updateStatus = "checking",
              !.updateProgress = Null, !.calls = @ + 1],
    <<[Frame("pou_cft") EXCEPT !.call = g.calls + 1]>>)

\* performOneClickUpdate, lines 353-365.
StartPerformOneClickUpdate(g) ==
  IF g.isUpdating THEN End(g, Resolved(Null, FALSE, FALSE))
  ELSE CallCheckForUpdatesWithTauri(
         [g EXCEPT !.isUpdating = TRUE, !.updateStatus = "checking",
                   !.updateProgress = Null, !.calls = @ + 1],
         <<[Frame("pou_cft") EXCEPT !.call = g.calls + 1]>>)

\* Mutant of UpdateFailed: isUpdating is cleared at the end of the try block
\* instead of in a finally.
UpdateFailedStillUpdating(g, err) ==
  End([g EXCEPT !.updateStatus = "error"], Rejected(err))

\* Mutant of UpdateFailed: the catch does not assign updateStatus.
UpdateFailedKeepsStatus(g, err) ==
  End([g EXCEPT !.isUpdating = FALSE], Rejected(err))

\* performOneClickUpdate, lines 407-414: the outer catch and finally.
UpdateFailed(g, err) ==
  End([g EXCEPT !.updateStatus = "error", !.isUpdating = FALSE], Rejected(err))

\* Mutant of AfterAvailabilityCheck: with nothing to install the call
\* subscribes and returns quietly.
AfterAvailabilityCheckQuiet(g, frame, updateInfo) ==
  IF updateInfo = Null \/ ~updateInfo[1].available
  THEN End([g EXCEPT !.isUpdating = FALSE,
                     !.listeners = @ \cup {<<frame.call, EventKinds[1]>>}],
           Resolved(Null, FALSE, FALSE))
  ELSE Run(g, <<[Frame("pou_listen") EXCEPT !.call = frame.call, !.n = 1]>>)

\* Mutant of AfterAvailabilityCheck: invoke first, subscribe never.
AfterAvailabilityCheckInvokeFirst(g, frame, updateInfo) ==
  IF updateInfo = Null \/ ~updateInfo[1].available
  THEN UpdateFailed(g, NoUpdateError)
  ELSE Run([g EXCEPT !.updateStatus = "downloading"],
           <<[Frame("pou_invoke") EXCEPT !.call = frame.call]>>)

\* performOneClickUpdate, lines 365-372: checkForUpdatesWithTauri returned;
\* the first listen is awaited.
AfterAvailabilityCheck(g, frame, updateInfo) ==
  IF updateInfo = Null \/ ~updateInfo[1].available
  THEN UpdateFailed(g, NoUpdateError)
  ELSE Run(g, <<[Frame("pou_listen") EXCEPT !.call = frame.call, !.n = 1]>>)

\* performOneClickUpdate, lines 372-392: the n-th listen answered.  The four
\* awaits stand outside the inner try: a rejected listen goes to the outer
\* catch, past the cleanup of lines 399-405.
ListenAnswered(g, frame, ok) ==
  IF ok
  THEN LET g1 == [g EXCEPT !.listeners = @ \cup {<<frame.call, EventKinds[frame.n]>>}]
       IN IF frame.n < Len(EventKinds)
          THEN Run(g1, <<[frame EXCEPT !.n = @ + 1]>>)
          ELSE Run([g1 EXCEPT !.updateStatus = "downloading"],
                   <<[Frame("pou_invoke") EXCEPT !.call = frame.call]>>)
  ELSE UpdateFailed(g, ListenError)

\* performOneClickUpdate, lines 399-405: the four unlisten calls.
Unlisten(g, call) == [g EXCEPT !.listeners = {l \in @ : l[1] # call}]

\* Mutant of InstallAnswered: the inner catch logs the failure and does not
\* rethrow it.
InstallAnsweredSwallowed(g, frame, ans) ==
  IF ans.ok
  THEN End([Unlisten(g, frame.call) EXCEPT !.updateStatus = "completed",
                                           !.isUpdating = FALSE],
           Resolved(Null, FALSE, FALSE))
  ELSE End([Unlisten(g, frame.call) EXCEPT !.isUpdating = FALSE],
           Resolved(Null, FALSE, FALSE))

\* Mutant of InstallAnswered: the failure is re-raised as a new error.
InstallAnsweredWrapped(g, frame, ans) ==
  IF ans.ok
  THEN End([Unlisten(g, frame.call) EXCEPT !.updateStatus = "completed",
                                           !.isUpdating = FALSE],
           Resolved(Null, FALSE, FALSE))
  ELSE UpdateFailed(Unlisten(g, frame.call), <<"update failed">>)

\* Mutant of InstallAnswered: completed is left to the Installer's
\* install-finished event.
InstallAnsweredNotCompleting(g, frame, ans) ==
  IF ans.ok
  THEN End([Unlisten(g, frame.call) EXCEPT !.isUpdating = FALSE],
           Resolved(Null, FALSE, FALSE))
  ELSE UpdateFailed(Unlisten(g, frame.call), ans.err)

\* performOneClickUpdate, lines 392-414: download_and_install_update answered.
InstallAnswered(g, frame, ans) ==
  IF ans.ok
  THEN End([Unlisten(g, frame.call) EXCEPT !.updateStatus = "completed",
                                           !.isUpdating = FALSE],
           Resolved(Null, FALSE, FALSE))
  ELSE UpdateFailed(Unlisten(g, frame.call), ans.err)

\* The Installer, by its contract: within one run the percentage it reports
\* never decreases, whether or not the total length is known, and once it
\* has signalled manual-download-required it cannot complete: the
\* invocation fails with the manual-download error.
InstallerIdle == [percentage |-> 0, manual |-> FALSE]

InstallerProgress(run) == {pl \in ProgressPayloads : pl.percentage >= run.percentage}

InstallerEmitted(run, kind, payload) ==
  CASE kind = "update_download_progress" -> [run EXCEPT !.percentage = payload[1].percentage]
    [] kind = "update_manual_download_required" -> [run EXCEPT !.manual = TRUE]
    [] OTHER -> run

InstallerOutcomes(run) ==
  IF run.manual THEN {[ok |-> FALSE, err |-> ManualDownloadError]}
  ELSE {[ok |-> TRUE, err |-> <<>>]} \cup {[ok |-> FALSE, err |-> e] : e \in InstallErrors}

\* Mutant of HandleEvent: a progress event does not force the status.
HandleEventProgressOnly(g, kind, payload) ==
  CASE kind = "update_download_progress" -> [g EXCEPT !.updateProgress = payload]
    [] kind = "update_install_started" -> [g EXCEPT !.updateStatus = "installing"]
    [] kind = "update_install_finished" -> [g EXCEPT !.updateStatus = "completed"]
    [] kind = "update_manual_download_required" -> g

\* Mutant of HandleEvent: the handler works the percentage out itself, from
\* the total length, and takes an absent length as zero per cent.
HandleEventRecomputes(g, kind, payload) ==
  CASE kind = "update_download_progress" ->
         [g EXCEPT !.updateProgress =
                     IF payload[1].content_length = Null
                     THEN Some([payload[1] EXCEPT !.percentage = 0]) ELSE payload,
                   !.updateStatus = "downloading"]
    [] kind = "update_install_started" -> [g EXCEPT !.updateStatus = "installing"]
    [] kind = "update_install_finished" -> [g EXCEPT !.updateStatus = "completed"]
    [] kind = "update_manual_download_required" -> g

\* Mutant of HandleEvent: manual-download-required ends the operation.
HandleEventManualFails(g, kind, payload) ==
  CASE kind = "update_download_progress" ->
         [g EXCEPT !.updateProgress = payload, !.updateStatus = "downloading"]
    [] kind = "update_install_started" -> [g EXCEPT !.updateStatus = "installing"]
    [] kind = "update_install_finished" -> [g EXCEPT !.updateStatus = "completed"]
    [] kind = "update_manual_download_required" ->
         [g EXCEPT !.updateStatus = "error", !.isUpdating = FALSE]

\* The four listeners of lines 372-387.
HandleEvent(g, kind, payload) ==
  CASE kind = "update_download_progress" ->
         [g EXCEPT !.updateProgress = payload, !.updateStatus = "downloading"]
    [] kind = "update_install_started" -> [g EXCEPT !.updateStatus = "installing"]
    [] kind = "update_install_finished" -> [g EXCEPT !.updateStatus = "completed"]
    [] kind = "update_manual_download_required" -> g

\* -------------------------------------------------------------- the link opener
CopiedMessage(url) == <<"cannot open automatically, copied to clipboard, open manually: ">> \o url

\* Mutant of ManualMessage: the message leaves the URL out.
ManualMessageWithoutUrl(url) == <<"cannot open the link, visit manually">>

ManualMessage(url) == <<"cannot open the link, visit manually: ">> \o url

\* safeOpenUrl, lines 281-284.
StartSafeOpenUrl(g, url) == Run(g, <<[Frame("sou_open") EXCEPT !.url = url]>>)

\* safeOpenUrl, lines 284-289: open_external_url answered.
OpenerAnswered(g, frame, ok) ==
  IF ok THEN End(g, Resolved(Null, FALSE, FALSE))
  ELSE Run(g, <<[Frame("sou_clip") EXCEPT !.url = frame.url]>>)

\* safeOpenUrl, lines 288-294: clipboard.writeText answered.  The throw of
\* line 290 stands inside the inner try, so the inner catch of line 292
\* catches it like a failure of writeText, and throws the error of line 293.
ClipboardAnswered(g, frame, ok) ==
  LET thrownInTry == IF ok THEN CopiedMessage(frame.url) ELSE <<"clipboard failed">>
      thrownInCatch == ManualMessage(frame.url)
  IN End(g, Rejected(thrownInCatch))

\* handleConfirmUpdate: the failures it answers by opening the download page.
IsManualDownloadReason(err) == err = ManualDownloadError

\* ------------------------------------------------------------------ returning
Ret(g, stk, v) ==
  IF stk = <<>> THEN End(g, Resolved(v, FALSE, FALSE))
  ELSE LET f == Head(stk)
           rest == Tail(stk)
       IN CASE f.at = "cft_github" -> AfterFallback(g, rest, v)
            [] f.at = "clv_cft" -> AfterServiceCheck(g, rest, v)
            [] f.at = "clv_gh" -> AfterGithubCheck(g, rest, v)
            [] f.at = "acu_clv" -> AfterAutoCheck(g, v)
            [] f.at = "scu_clv" -> AfterSilentCheck(g, f, v)
            [] f.at = "mcu_clv" -> AfterManualCheck(g, v)
            [] f.at = "pou_cft" -> AfterAvailabilityCheck(g, f, v)

\* -------------------------------------------------------------------- actions
\* What a task's call has seen: the answers of check_for_updates, of the
\* Public Release API (and the tag of its last release), of
\* download_and_install_update, of open_external_url and of
\* clipboard.writeText, in order; whether another performOneClickUpdate call
\* was in progress when it started; how often it invoked
\* download_and_install_update; and, taken when it returned, updateStatus,
\* showUpdateModal and the ledger's history of the version it decided on.
\* Further: whether another checkLatestVersion call was in progress when it
\* started (overlap); for each channel answer, whether it reported an
\* available update (offer); the answers of listen; and whether a
\* manual-download-required event arrived while it awaited the Installer.
NoObs ==
  [op |-> "none", busy |-> FALSE, service |-> <<>>, github |-> <<>>, tag |-> <<>>,
   invoked |-> 0, install |-> <<>>, opener |-> <<>>, clipboard |-> <<>>, url |-> <<>>,
   status |-> "none", modal |-> FALSE, hist |-> "none",
   overlap |-> FALSE, offer |-> <<>>, listen |-> <<>>, manual |-> FALSE]

ObsOf(op) == [NoObs EXCEPT !.op = op]

NoReturn == [task |-> 0, result |-> NoResult, obs |-> NoObs]
NoEvent == [kind |-> "none", payload |-> Null]
NoInput ==
  [fn |-> "none", a |-> <<>>, b |-> <<>>, segsA |-> <<>>, segsB |-> <<>>, slot |-> Absent]
NoOutput == [fn |-> "none", number |-> 0, versions |-> <<>>]

KnownVersions ==
  {a.latest_version : a \in ServiceAnswers} \cup {NormalizeTag(t) : t \in ReleaseTags}
    \cup {CurrentVersion, FallbackVersion}

InitialSlots == {Absent, Corrupt, JsonArray(<<VersionX>>)}

\* The module's state once loaded (lines 80-96), the slot holding one of slots.
Loaded(slots) ==
  /\ versionInfo = Null
  /\ isChecking = FALSE
  /\ lastCheckTime = Null
  /\ isUpdating = FALSE
  /\ updateProgress = Null
  /\ updateStatus = "idle"
  /\ showUpdateModal = FALSE
  /\ autoCheckEnabled = TRUE
  /\ storage \in slots
  /\ cancelledVersions = loadCancelledVersions(storage)
  /\ listeners = {}
  /\ calls = 0
  /\ now = 0
  /\ stack = [p \in Tasks |-> <<>>]
  /\ obs = [p \in Tasks |-> NoObs]
  /\ lastReturn = NoReturn
  /\ ledgerHistory = [v \in KnownVersions |-> "never"]
  /\ installer = InstallerIdle
  /\ lastEvent = NoEvent

InitWith(slots) ==
  /\ Loaded(slots)
  /\ input = NoInput
  /\ output = NoOutput

Init == InitWith({Absent})
InitLedger == InitWith(InitialSlots)

Idle(p) == stack[p] = <<>>
InProgress(p, op) == stack[p] # <<>> /\ obs[p].op = op
AwaitingAt(p, at) == stack[p] # <<>> /\ Head(stack[p]).at = at
Invoking(stk) == stk # <<>> /\ Head(stk).at = "pou_invoke"

\* Another task is inside performOneClickUpdate.
OtherUpdateInProgress(p) ==
  \E q \in Tasks \ {p} : stack[q] # <<>> /\ obs[q].op = "performOneClickUpdate"

\* What o becomes when the call returns r with the shared state g and the
\* ledger's history h.
Returned(o, r, g, h) ==
  [o EXCEPT !.status = g.updateStatus,
            !.modal = g.showUpdateModal,
            !.hist = IF /\ o.op \in {"autoCheckUpdate", "manualCheckUpdate"}
                        /\ r.info # Null
                        /\ r.info[1].latest \in KnownVersions
                     THEN h[r.info[1].latest] ELSE "none"]

\* Task p's code has run to out: the shared state and p's stack are replaced,
\* and a call that ended is recorded, until the next step, as the one that
\* returned; o is what p has seen of its collaborators and h the ledger's
\* history after the step.
Step(p, out, o, h) ==
  LET o1 == IF Invoking(out.stk) /\ ~Invoking(stack[p])
            THEN [o EXCEPT !.invoked = @ + 1] ELSE o
  IN /\ Commit(out.g)
     /\ stack' = [stack EXCEPT ![p] = out.stk]
     /\ obs' = [obs EXCEPT ![p] = IF out.res = Null THEN o1 ELSE NoObs]
     /\ lastReturn' =
          IF out.res = Null THEN NoReturn
          ELSE [task |-> p, result |-> out.res[1],
                obs |-> Returned(o1, out.res[1], out.g, h)]
     /\ ledgerHistory' = h
     /\ now' = now
     /\ installer' = IF Invoking(out.stk) /\ ~Invoking(stack[p])
                      THEN InstallerIdle ELSE installer
     /\ lastEvent' = NoEvent
     /\ UNCHANGED <<input, output>>

CheckLatestVersion(p) ==
  /\ Idle(p)
  /\ Step(p, CallCheckLatestVersion(G, <<>>),
          [ObsOf("checkLatestVersion") EXCEPT
             !.overlap = \E q \in Tasks \ {p} : InProgress(q, "checkLatestVersion")],
          ledgerHistory)

CheckForUpdatesWithTauri(p) ==
  /\ Idle(p)
  /\ Step(p, CallCheckForUpdatesWithTauri(G, <<>>), ObsOf("checkForUpdatesWithTauri"),
          ledgerHistory)

AutoCheckUpdate(p) ==
  /\ Idle(p)
  /\ Step(p, StartAutoCheckUpdate(G), ObsOf("autoCheckUpdate"), ledgerHistory)

SilentCheckUpdate(p) ==
  /\ Idle(p)
  /\ Step(p, StartSilentCheckUpdate(G), ObsOf("silentCheckUpdate"), ledgerHistory)

GetVersionInfo(p) ==
  /\ Idle(p)
  /\ Step(p, StartGetVersionInfo(G), ObsOf("getVersionInfo"), ledgerHistory)

\* The ledger's history: a version the call clears is "cleared" until it is
\* dismissed again or the process restarts; every other version starts afresh.
ManualCheckUpdate(p) ==
  /\ Idle(p)
  /\ \E writeOk \in BOOLEAN :
       Step(p, StartManualCheckUpdate(G, writeOk), ObsOf("manualCheckUpdate"),
            [v \in KnownVersions |->
               IF Has(cancelledVersions, v) \/ ledgerHistory[v] = "cleared"
               THEN "cleared" ELSE "never"])

PerformOneClickUpdate(p) ==
  /\ Idle(p)
  /\ calls < MaxCalls
  /\ Step(p, StartPerformOneClickUpdate(G),
          [ObsOf("performOneClickUpdate") EXCEPT !.busy = OtherUpdateInProgress(p)],
          ledgerHistory)

SafeOpenUrl(p) ==
  /\ Idle(p)
  /\ \E url \in Urls :
       Step(p, StartSafeOpenUrl(G, url), [ObsOf("safeOpenUrl") EXCEPT !.url = url],
            ledgerHistory)

\* invoke('check_for_updates') answers task p.
ServiceResponds(p) ==
  /\ AwaitingAt(p, "cft_invoke")
  /\ \E ans \in ServiceOutcomes :
       Step(p, ServiceAnswered(G, Tail(stack[p]), ans),
            [obs[p] EXCEPT !.service = Append(@, ans.ok),
                           !.offer = Append(@, ans.ok /\ ans.info.available)],
            ledgerHistory)

GithubRespondsWith(p, outcomes) ==
  /\ AwaitingAt(p, "gh_fetch")
  /\ \E ans \in outcomes :
       Step(p, GithubAnswered(G, Tail(stack[p]), ans),
            [obs[p] EXCEPT !.github = Append(@, ans.ok),
                           !.tag = IF ans.ok THEN ans.tag ELSE @,
                           !.offer = Append(@, ans.ok /\ GithubInfo(ans.tag, ans.appInfoOk).hasUpdate)],
            ledgerHistory)

\* The Public Release API (and get_app_info) answers task p.
GithubResponds(p) == GithubRespondsWith(p, GithubOutcomes)

\* The same, the release's tag being any string of up to MaxTagLen characters.
AnyTagOutcomes ==
  {[ok |-> TRUE, tag |-> t, appInfoOk |-> TRUE] : t \in SeqsUpTo(TagChars, MaxTagLen)}
    \cup {[ok |-> FALSE, tag |-> <<>>, appInfoOk |-> TRUE]}

GithubRespondsAnyTag(p) == GithubRespondsWith(p, AnyTagOutcomes)

\* get_app_info answers getVersionInfo.
AppInfoResponds(p) ==
  /\ AwaitingAt(p, "gvi_appinfo")
  /\ \E ok \in BOOLEAN : Step(p, AppInfoAnswered(G, ok), obs[p], ledgerHistory)

\* listen(...) answers task p: the subscription is made, or is refused.
ListenResponds(p) ==
  /\ AwaitingAt(p, "pou_listen")
  /\ \E ok \in BOOLEAN :
       Step(p, ListenAnswered(G, Head(stack[p]), ok),
            [obs[p] EXCEPT !.listen = Append(@, ok)], ledgerHistory)

InstallOutcomes == InstallerOutcomes(installer)

\* invoke('download_and_install_update') answers task p.
InstallerReturns(p) ==
  /\ AwaitingAt(p, "pou_invoke")
  /\ \E ans \in InstallOutcomes :
       Step(p, InstallAnswered(G, Head(stack[p]), ans),
            [obs[p] EXCEPT !.install = Append(@, ans)], ledgerHistory)

\* The Installer, while it runs, emits an event; every listener registered
\* for it is called.
InstallerEmits ==
  /\ \E p \in Tasks : AwaitingAt(p, "pou_invoke")
  /\ \E kind \in Range(EventKinds) :
       /\ \E l \in listeners : l[2] = kind
       /\ \E payload \in (IF kind = "update_download_progress"
                          THEN {Some(pl) : pl \in InstallerProgress(installer)}
                          ELSE {Null}) :
            /\ Commit(HandleEvent(G, kind, payload))
            /\ installer' = InstallerEmitted(installer, kind, payload)
            /\ lastEvent' = [kind |-> kind, payload |-> payload]
       /\ obs' = [p \in Tasks |->
                    IF AwaitingAt(p, "pou_invoke") /\ kind = "update_manual_download_required"
                    THEN [obs[p] EXCEPT !.manual = TRUE] ELSE obs[p]]
  /\ lastReturn' = NoReturn
  /\ UNCHANGED <<now, stack, ledgerHistory, input, output>>

OpenerResponds(p) ==
  /\ AwaitingAt(p, "sou_open")
  /\ \E ok \in BOOLEAN :
       Step(p, OpenerAnswered(G, Head(stack[p]), ok),
            [obs[p] EXCEPT !.opener = Append(@, ok)], ledgerHistory)

ClipboardResponds(p) ==
  /\ AwaitingAt(p, "sou_clip")
  /\ \E ok \in BOOLEAN :
       Step(p, ClipboardAnswered(G, Head(stack[p]), ok),
            [obs[p] EXCEPT !.clipboard = Append(@, ok)], ledgerHistory)

\* Task p's pending request at position at is never answered: the promise
\* never settles, and the code has put no time limit on it.
NeverAnswers(p, at) ==
  /\ AwaitingAt(p, at)
  /\ stack' = [stack EXCEPT ![p] = <<[Head(@) EXCEPT !.at = "unanswered"]>> \o Tail(@)]
  /\ lastReturn' = NoReturn
  /\ lastEvent' = NoEvent
  /\ UNCHANGED <<progVars, now, obs, ledgerHistory, installer, input, output>>

\* invoke('check_for_updates') never answers task p (line 313).
ServiceNeverAnswers(p) == NeverAnswers(p, "cft_invoke")

\* The request to GitHub never answers task p (line 147).
GithubNeverAnswers(p) == NeverAnswers(p, "gh_fetch")

Unanswered(p) == AwaitingAt(p, "unanswered")

\* The user dismisses the prompt.  The ledger's history: the dismissed
\* version is "session" (in memory only) or, once a write of the ledger
\* succeeded, "durable", as is then every version that was "session".  A
\* "durable" version is "reloaded" once the process has restarted.
DismissUpdate ==
  /\ \E writeOk \in BOOLEAN :
       /\ Commit(dismissUpdateCode(G, writeOk))
       /\ ledgerHistory' =
            IF versionInfo # Null /\ versionInfo[1].latest # <<>>
            THEN [v \in KnownVersions |->
                    IF ledgerHistory[v] \in {"durable", "reloaded"}
                    THEN ledgerHistory[v]
                    ELSE IF v = versionInfo[1].latest \/ ledgerHistory[v] = "session"
                    THEN (IF writeOk THEN "durable" ELSE "session")
                    ELSE ledgerHistory[v]]
            ELSE ledgerHistory
  /\ lastReturn' = NoReturn
  /\ lastEvent' = NoEvent
  /\ UNCHANGED <<input, output>>
  /\ UNCHANGED <<now, stack, obs, installer>>

\* closeUpdateModal, lines 429-431.
CloseUpdateModal ==
  /\ showUpdateModal' = FALSE
  /\ UNCHANGED <<versionInfo, isChecking, lastCheckTime, isUpdating, updateProgress,
                 updateStatus, autoCheckEnabled, cancelledVersions, storage,
                 listeners, calls, now, stack, obs, ledgerHistory, installer>>
  /\ lastReturn' = NoReturn
  /\ lastEvent' = NoEvent
  /\ UNCHANGED <<input, output>>

\* The process restarts: the module is loaded again (lines 80-96), every
\* pending call is gone and only the storage slot is kept.  The ledger's
\* history: what was in memory only is "lost".
Restart ==
  /\ versionInfo' = Null
  /\ isChecking' = FALSE
  /\ lastCheckTime' = Null
  /\ isUpdating' = FALSE
  /\ updateProgress' = Null
  /\ updateStatus' = "idle"
  /\ showUpdateModal' = FALSE
  /\ autoCheckEnabled' = TRUE
  /\ cancelledVersions' = loadCancelledVersions(storage)
  /\ listeners' = {}
  /\ stack' = [p \in Tasks |-> <<>>]
  /\ obs' = [p \in Tasks |-> NoObs]
  /\ lastReturn' = NoReturn
  /\ ledgerHistory' =
       [v \in KnownVersions |->
          CASE ledgerHistory[v] = "session" -> "lost"
            [] ledgerHistory[v] = "durable" -> "reloaded"
            [] ledgerHistory[v] = "cleared" -> "never"
            [] OTHER -> ledgerHistory[v]]
  /\ installer' = InstallerIdle
  /\ lastEvent' = NoEvent
  /\ UNCHANGED <<input, output>>
  /\ UNCHANGED <<storage, calls, now>>

\* An hour passes.
Tick ==
  /\ now < MaxTime
  /\ now' = now + 1
  /\ lastReturn' = NoReturn
  /\ lastEvent' = NoEvent
  /\ UNCHANGED <<input, output>>
  /\ UNCHANGED <<progVars, stack, obs, ledgerHistory, installer>>

\* ----------------------------------------------- functions applied on their own
RECURSIVE Join(_)
Join(segs) ==
  IF Len(segs) = 1 THEN segs[1] ELSE segs[1] \o <<".">> \o Join(Tail(segs))

\* Segments: unsigned integers, and segments that are not: the empty one, a
\* letter, a signed number.
NumericSegments == {<<"0">>, <<"9">>, <<"1", "0">>}
OtherSegments == {<<>>, <<"b">>, <<"-", "1">>}

SegmentLists(S) == SeqsUpTo(S, MaxSegments) \ {<<>>}

CompareInputs ==
  {[NoInput EXCEPT !.fn = "compareVersions", !.a = Join(sa), !.b = Join(sb),
                   !.segsA = sa, !.segsB = sb] :
     sa \in SegmentLists(NumericSegments), sb \in SegmentLists(NumericSegments)}
  \cup
  {[NoInput EXCEPT !.fn = "compareVersions", !.a = Join(sa), !.b = Join(sb),
                   !.segsA = sa, !.segsB = sb] :
     sa \in SegmentLists(OtherSegments), sb \in SegmentLists(OtherSegments)}

SlotContents ==
  {Absent, EmptyText, Corrupt, JsonNull, JsonScalar, JsonObject}
    \cup {JsonString(v) : v \in {VersionX, CurrentVersion}}
    \cup {JsonArray(items) : items \in SeqsUpTo({VersionX, CurrentVersion}, MaxItems)}

LoadInputs ==
  {[NoInput EXCEPT !.fn = "loadCancelledVersions", !.slot = c] : c \in SlotContents}

InitFunctions ==
  /\ Loaded({Absent})
  /\ input \in CompareInputs \cup LoadInputs
  /\ output = NoOutput

ApplyCompareVersions ==
  /\ input.fn = "compareVersions"
  /\ output = NoOutput
  /\ output' = [NoOutput EXCEPT !.fn = input.fn, !.number = compareVersions(input.a, input.b)]
  /\ UNCHANGED <<progVars, now, stack, obs, lastReturn, ledgerHistory, installer,
                 lastEvent, input>>

ApplyLoadCancelledVersions ==
  /\ input.fn = "loadCancelledVersions"
  /\ output = NoOutput
  /\ output' = [NoOutput EXCEPT !.fn = input.fn,
                                !.versions = loadCancelledVersions(input.slot)]
  /\ UNCHANGED <<progVars, now, stack, obs, lastReturn, ledgerHistory, installer,
                 lastEvent, input>>

\* ------------------------------------------------------------ specifications
\* compareVersions and loadCancelledVersions, each applied to one input.
NextFunctions ==
  \/ ApplyCompareVersions
  \/ ApplyLoadCancelledVersions

SpecFunctions == InitFunctions /\ [][NextFunctions]_vars

\* The dismissal ledger: automatic and manual checks, dismissals, restarts.
NextLedger ==
  \/ \E p \in Tasks : AutoCheckUpdate(p)
  \/ \E p \in Tasks : ManualCheckUpdate(p)
  \/ \E p \in Tasks : ServiceResponds(p)
  \/ \E p \in Tasks : GithubResponds(p)
  \/ DismissUpdate
  \/ Restart
  \/ Tick

SpecLedger == InitLedger /\ [][NextLedger]_vars

\* The update state machine: concurrent performOneClickUpdate calls and the
\* Installer's events.
NextUpdate ==
  \/ \E p \in Tasks : PerformOneClickUpdate(p)
  \/ \E p \in Tasks : ServiceResponds(p)
  \/ \E p \in Tasks : GithubResponds(p)
  \/ \E p \in Tasks : ListenResponds(p)
  \/ \E p \in Tasks : InstallerReturns(p)
  \/ InstallerEmits

SpecUpdate == Init /\ [][NextUpdate]_vars

\* The version resolver: concurrent checkLatestVersion calls.
NextResolver ==
  \/ \E p \in Tasks : CheckLatestVersion(p)
  \/ \E p \in Tasks : ServiceResponds(p)
  \/ \E p \in Tasks : GithubResponds(p)
  \/ Tick

SpecResolver == Init /\ [][NextResolver]_vars

\* The version resolver on every tag: checkLatestVersion, called by one task
\* until a resolution succeeds.
NextTags ==
  \/ versionInfo = Null /\ CheckLatestVersion(1)
  \/ ServiceResponds(1)
  \/ GithubRespondsAnyTag(1)

SpecTags == Init /\ [][NextTags]_vars

\* The link opener.
NextOpener ==
  \/ \E p \in Tasks : SafeOpenUrl(p)
  \/ \E p \in Tasks : OpenerResponds(p)
  \/ \E p \in Tasks : ClipboardResponds(p)

SpecOpener == Init /\ [][NextOpener]_vars

\* Every operation that asks the Update Service, side by side; checks are
\* started until one has resolved a version.
NextChecks ==
  \/ \E p \in Tasks : versionInfo = Null /\ CheckLatestVersion(p)
  \/ \E p \in Tasks : versionInfo = Null /\ AutoCheckUpdate(p)
  \/ \E p \in Tasks : versionInfo = Null /\ ManualCheckUpdate(p)
  \/ \E p \in Tasks : versionInfo = Null /\ SilentCheckUpdate(p)
  \/ \E p \in Tasks : versionInfo = Null /\ CheckForUpdatesWithTauri(p)
  \/ \E p \in Tasks : PerformOneClickUpdate(p)
  \/ \E p \in Tasks : ServiceResponds(p)
  \/ \E p \in Tasks : GithubResponds(p)
  \/ \E p \in Tasks : ListenResponds(p)
  \/ \E p \in Tasks : InstallerReturns(p)

SpecChecks == Init /\ [][NextChecks]_vars

\* The update state machine, every awaited collaborator call being answered
\* in the end.
FairUpdate ==
  \A p \in Tasks :
    /\ WF_vars(ServiceResponds(p))
    /\ WF_vars(GithubResponds(p))
    /\ WF_vars(ListenResponds(p))
    /\ WF_vars(InstallerReturns(p))

SpecUpdateLive == SpecUpdate /\ FairUpdate

\* Every operation, called by one task, one call at a time: checks until an
\* update is started, then the update with the Installer's events;
\* dismissals and closings of the prompt at any time.
AllIdle == \A q \in Tasks : Idle(q)
BeforeUpdate == AllIdle /\ calls = 0

NextFrame ==
  \/ BeforeUpdate /\ CheckLatestVersion(1)
  \/ BeforeUpdate /\ AutoCheckUpdate(1)
  \/ BeforeUpdate /\ SilentCheckUpdate(1)
  \/ BeforeUpdate /\ GetVersionInfo(1)
  \/ BeforeUpdate /\ ManualCheckUpdate(1)
  \/ BeforeUpdate /\ PerformOneClickUpdate(1)
  \/ ServiceResponds(1)
  \/ GithubResponds(1)
  \/ AppInfoResponds(1)
  \/ ListenResponds(1)
  \/ InstallerReturns(1)
  \/ InstallerEmits
  \/ DismissUpdate
  \/ CloseUpdateModal

SpecFrame == Init /\ [][NextFrame]_vars

\* Checks and updates by one task, either channel answering or staying
\* silent; every request that is not silent is answered in the end.
NextSilence ==
  \/ versionInfo = Null /\ CheckLatestVersion(1)
  \/ PerformOneClickUpdate(1)
  \/ ServiceResponds(1)
  \/ GithubResponds(1)
  \/ ListenResponds(1)
  \/ InstallerReturns(1)
  \/ ServiceNeverAnswers(1)
  \/ GithubNeverAnswers(1)

FairSilence ==
  /\ WF_vars(ServiceResponds(1) \/ ServiceNeverAnswers(1))
  /\ WF_vars(GithubResponds(1) \/ GithubNeverAnswers(1))
  /\ WF_vars(ListenResponds(1))
  /\ WF_vars(InstallerReturns(1))

SpecSilence == Init /\ [][NextSilence]_vars /\ FairSilence

\* Silent checks side by side with each other and with the other checks.
NextSilent ==
  \/ \E p \in Tasks : SilentCheckUpdate(p)
  \/ \E p \in Tasks : CheckLatestVersion(p)
  \/ \E p \in Tasks : AutoCheckUpdate(p)
  \/ \E p \in Tasks : ServiceResponds(p)
  \/ \E p \in Tasks : GithubResponds(p)

SpecSilent == Init /\ [][NextSilent]_vars

\* getVersionInfo side by side with checkLatestVersion.
NextInfo ==
  \/ \E p \in Tasks : GetVersionInfo(p)
  \/ \E p \in Tasks : CheckLatestVersion(p)
  \/ \E p \in Tasks : AppInfoResponds(p)
  \/ \E p \in Tasks : ServiceResponds(p)
  \/ \E p \in Tasks : GithubResponds(p)

SpecInfo == Init /\ [][NextInfo]_vars

Spec == SpecUpdate

\* --------------------------------------------------------------------- claims
UpdateCall(o) == o.op = "performOneClickUpdate"

\* C1: a performOneClickUpdate call that starts while another one is in
\* progress returns at once, having invoked nothing; so at most one call is
\* ever in progress, download_and_install_update is pending at most once, and
\* the call that was admitted and resolved invoked it exactly once.
C1_SecondCallIsNoOp ==
  /\ Cardinality({p \in Tasks : stack[p] # <<>> /\ UpdateCall(obs[p])}) <= 1
  /\ \A p \in Tasks : ~obs[p].busy /\ obs[p].invoked <= 1
  /\ lastReturn.obs.busy =>
       /\ lastReturn.result = Resolved(Null, FALSE, FALSE)
       /\ lastReturn.obs.invoked = 0
       /\ lastReturn.obs.service = <<>>
  /\ (UpdateCall(lastReturn.obs) /\ ~lastReturn.obs.busy
        /\ lastReturn.result.kind = "resolved") => lastReturn.obs.invoked = 1

\* The second call has returned while the first awaits the Installer.
C1_Witness ==
  /\ lastReturn.obs.busy
  /\ \E p \in Tasks : Invoking(stack[p]) /\ obs[p].invoked = 1

\* C4: while download_and_install_update is pending, the listeners of all
\* four Installer events of that call are registered.
C4_SubscribedBeforeInvoke ==
  \A p \in Tasks :
    Invoking(stack[p]) =>
      \A k \in 1..Len(EventKinds) : <<Head(stack[p]).call, EventKinds[k]>> \in listeners

\* The Installer runs and a progress event has been handled.
C4_Witness ==
  \E p \in Tasks : Invoking(stack[p]) /\ updateProgress # Null

InstallFailed(o) == UpdateCall(o) /\ o.install # <<>> /\ ~o.install[1].ok

\* C5: a performOneClickUpdate call whose download_and_install_update failed
\* returns with updateStatus = error and rejects with the error the
\* invocation raised.
C5_OriginalErrorRethrown ==
  InstallFailed(lastReturn.obs) =>
    /\ lastReturn.result = Rejected(lastReturn.obs.install[1].err)
    /\ lastReturn.obs.status = "error"

C5_Witness ==
  /\ InstallFailed(lastReturn.obs)
  /\ lastReturn.result.kind = "rejected"

\* C6: every registered listener belongs to a performOneClickUpdate call that
\* is still in progress: a call that has returned has released all of its
\* subscriptions.
C6_SubscriptionsReleased ==
  \A l \in listeners :
    \E p \in Tasks : stack[p] # <<>> /\ Head(stack[p]).call = l[1]

AutoCheck(o) == o.op = "autoCheckUpdate"
ReportsUpdate(r) == r.info # Null /\ r.info[1].hasUpdate

\* C2 (as claimed): autoCheckUpdate never shows the prompt for a version that
\* dismissUpdate has recorded since the ledger was last cleared, whether the
\* process has restarted since or not.
C2_SuppressedAcrossRestart ==
  (AutoCheck(lastReturn.obs) /\ lastReturn.result.shown) =>
    lastReturn.obs.hist \notin {"session", "durable", "reloaded", "lost"}

\* C2 (amended): autoCheckUpdate never shows the prompt for a version that
\* dismissUpdate has recorded since the ledger was last cleared, in the same
\* process session, nor, after a restart, for one whose dismissal a write of
\* the ledger to the slot has succeeded for.
C2_SuppressedWhileRecorded ==
  (AutoCheck(lastReturn.obs) /\ lastReturn.result.shown) =>
    lastReturn.obs.hist \notin {"session", "durable", "reloaded"}

\* After a restart, autoCheckUpdate has resolved a dismissed version as
\* available and has not shown the prompt.
C2_Witness ==
  /\ AutoCheck(lastReturn.obs)
  /\ ReportsUpdate(lastReturn.result)
  /\ lastReturn.obs.hist = "reloaded"
  /\ lastReturn.obs.service # <<>>
  /\ ~lastReturn.result.shown
  /\ ~lastReturn.obs.modal

C7_InfoWhenAChannelAnswers ==
  (/\ lastReturn.obs.op = "checkLatestVersion"
   /\ TRUE \in Range(lastReturn.obs.service) \cup Range(lastReturn.obs.github))
    => lastReturn.result.info # Null

IsDigitOrDot(c) == c \in Digits \cup {"."}

ViaFallback(o) ==
  /\ o.op = "checkLatestVersion"
  /\ o.service = <<FALSE>>
  /\ o.github # <<>>
  /\ o.github[Len(o.github)]

\* C8: when the Update Service failed and the Public Release API answered,
\* the returned VersionInfo's latest is the release's tag without its
\* characters that are neither digits nor dots (a leading "v" among them),
\* and so consists of digits and dots only.
C8_LatestIsNumeric ==
  ViaFallback(lastReturn.obs) =>
    /\ lastReturn.result.info # Null
    /\ lastReturn.result.info[1].latest = SelectSeq(lastReturn.obs.tag, IsDigitOrDot)
    /\ Range(lastReturn.result.info[1].latest) \subseteq Digits \cup {"."}

\* A decorated tag has been normalised.
C8_Witness ==
  /\ ViaFallback(lastReturn.obs)
  /\ lastReturn.obs.tag = <<"b", "v", "2">>
  /\ lastReturn.result.info[1].latest = <<"2">>

SafeOpen(o) == o.op = "safeOpenUrl"

\* C9: safeOpenUrl ends in one of three outcomes: success when the opener
\* succeeds, the "copied to clipboard" failure when the opener fails and the
\* copy succeeds, the "visit manually" failure when both fail.
C9_ThreeOutcomes ==
  SafeOpen(lastReturn.obs) =>
    CASE lastReturn.obs.opener = <<TRUE>> -> lastReturn.result.kind = "resolved"
      [] lastReturn.obs.clipboard = <<TRUE>> ->
           lastReturn.result = Rejected(CopiedMessage(lastReturn.obs.url))
      [] OTHER -> lastReturn.result = Rejected(ManualMessage(lastReturn.obs.url))

Contains(s, t) ==
  \E i \in 1..(Len(s) - Len(t) + 1) : SubSeq(s, i, i + Len(t) - 1) = t

BothFailed(o) == SafeOpen(o) /\ o.opener = <<FALSE>> /\ o.clipboard = <<FALSE>>

\* C10: when the opener and the clipboard copy both fail, safeOpenUrl rejects
\* with a message that contains the URL it was given.
C10_FailureNamesUrl ==
  BothFailed(lastReturn.obs) =>
    /\ lastReturn.result.kind = "rejected"
    /\ Contains(lastReturn.result.err, lastReturn.obs.url)

C10_Witness ==
  /\ BothFailed(lastReturn.obs)
  /\ lastReturn.obs.url = <<"u", "2">>
  /\ lastReturn.result.kind = "rejected"

Last(s) == s[Len(s)]

\* The availability check of a performOneClickUpdate call that was admitted
\* has answered: with the last channel's answer.
Reverified(o) == UpdateCall(o) /\ ~o.busy /\ o.offer # <<>>

\* C11: a performOneClickUpdate call whose availability check reported no
\* available update rejects with the no-update-available error, has never
\* invoked download_and_install_update and has subscribed to no event.
C11_NothingToInstall ==
  /\ (Reverified(lastReturn.obs) /\ ~Last(lastReturn.obs.offer)) =>
       /\ lastReturn.result = Rejected(NoUpdateError)
       /\ lastReturn.obs.invoked = 0
       /\ lastReturn.obs.listen = <<>>
  /\ \A p \in Tasks :
       (Reverified(obs[p]) /\ ~Last(obs[p].offer)) =>
         /\ AwaitingAt(p, "gh_fetch")
         /\ \A l \in listeners : l[1] # Head(stack[p]).call

\* Both channels failed; the call has rejected with the no-update error.
C11_Witness ==
  /\ Reverified(lastReturn.obs)
  /\ lastReturn.obs.offer = <<FALSE, FALSE>>
  /\ lastReturn.obs.github = <<FALSE>>
  /\ lastReturn.result = Rejected(NoUpdateError)
  /\ listeners = {}

\* C12: download_and_install_update is pending or has been invoked only in a
\* performOneClickUpdate call whose own availability check reported an
\* available update, whatever versionInfo holds from earlier checks.
C12_InstallOnlyAfterReverification ==
  /\ \A p \in Tasks :
       (Invoking(stack[p]) \/ obs[p].invoked > 0) =>
         Reverified(obs[p]) /\ Last(obs[p].offer)
  /\ lastReturn.obs.invoked > 0 =>
       Reverified(lastReturn.obs) /\ Last(lastReturn.obs.offer)

\* versionInfo holds an available update from an earlier check; the call's
\* own check reported none, and the call has returned without invoking.
C12_Witness ==
  /\ versionInfo # Null /\ versionInfo[1].hasUpdate
  /\ Reverified(lastReturn.obs)
  /\ lastReturn.obs.offer = <<FALSE>>
  /\ lastReturn.obs.invoked = 0
  /\ lastReturn.result.kind = "rejected"

\* C13: a checkLatestVersion call that starts while another one is in
\* progress asks neither channel and returns the cached versionInfo.
C13_OverlappingCheckReturnsCache ==
  lastReturn.obs.overlap =>
    /\ lastReturn.obs.service = <<>>
    /\ lastReturn.obs.github = <<>>
    /\ lastReturn.result = Resolved(versionInfo, FALSE, FALSE)

\* The overlapping call has returned a cached VersionInfo.
C13_Witness ==
  /\ lastReturn.obs.overlap
  /\ versionInfo # Null
  /\ lastReturn.result.info = versionInfo
  /\ \E p \in Tasks : InProgress(p, "checkLatestVersion")

\* C14: at most one check_for_updates request is in flight, whichever
\* operations are in progress.
C14_OneServiceRequestInFlight ==
  Cardinality({p \in Tasks : AwaitingAt(p, "cft_invoke")}) <= 1

\* What an event handler leaves alone.
EventFrame ==
  UNCHANGED <<versionInfo, isChecking, lastCheckTime, isUpdating, showUpdateModal,
              autoCheckEnabled, cancelledVersions, storage, listeners, calls>>

\* C15: a progress event replaces updateProgress with its payload and sets
\* updateStatus to downloading; an install-started event sets updateStatus to
\* installing; an install-finished event sets it to completed; and none
\* changes anything else.
C15_EventEffects ==
  [][CASE lastEvent'.kind = "update_download_progress" ->
            /\ updateProgress' = lastEvent'.payload
            /\ updateStatus' = "downloading"
            /\ EventFrame
       [] lastEvent'.kind = "update_install_started" ->
            /\ updateStatus' = "installing"
            /\ UNCHANGED updateProgress
            /\ EventFrame
       [] lastEvent'.kind = "update_install_finished" ->
            /\ updateStatus' = "completed"
            /\ UNCHANGED updateProgress
            /\ EventFrame
       [] OTHER -> TRUE]_vars

\* A progress event has arrived after install-started and has replaced the
\* progress record.
C15_Witness ==
  /\ lastEvent.kind = "update_download_progress"
  /\ lastEvent.payload[1].percentage = 100
  /\ updateProgress = lastEvent.payload
  /\ updateStatus = "downloading"
  /\ installer.percentage = 100

\* The transitions of the diagram.
Diagram ==
  {<<"checking", "downloading">>, <<"downloading", "downloading">>,
   <<"downloading", "installing">>, <<"installing", "completed">>,
   <<"checking", "error">>, <<"downloading", "error">>, <<"installing", "error">>}

\* C16: within an operation, whatever the Installer emits and returns,
\* updateStatus changes along the diagram only: never from installing or
\* completed back to downloading, never from completed to error.  (A new
\* operation starts in checking, and a call that resolves leaves completed.)
C16_DiagramOnly ==
  [][updateStatus' # updateStatus =>
       \/ <<updateStatus, updateStatus'>> \in Diagram
       \/ updateStatus' = "checking" /\ calls' = calls + 1
       \/ updateStatus' = "completed" /\ lastReturn'.result.kind = "resolved"]_vars

\* C17: an admitted performOneClickUpdate call returns in the end, and when
\* it returns isUpdating is false and updateStatus is completed if it
\* resolved, error if it rejected.
C17_RunsToCompletion ==
  /\ [](UpdateCall(lastReturn.obs) /\ ~lastReturn.obs.busy =>
         /\ ~isUpdating
         /\ lastReturn.result.kind = "resolved" => lastReturn.obs.status = "completed"
         /\ lastReturn.result.kind = "rejected" => lastReturn.obs.status = "error"
         /\ lastReturn.obs.status \in {"completed", "error"})
  /\ \A p \in Tasks :
       InProgress(p, "performOneClickUpdate") ~> ~InProgress(p, "performOneClickUpdate")

\* The call has resolved after the Installer reported progress.
C17_Witness ==
  /\ UpdateCall(lastReturn.obs) /\ ~lastReturn.obs.busy
  /\ lastReturn.result.kind = "resolved"
  /\ lastReturn.obs.install = <<[ok |-> TRUE, err |-> <<>>]>>
  /\ updateProgress # Null
  /\ updateStatus = "completed" /\ ~isUpdating

C19_ManualEventChangesNothing ==
  [][lastEvent'.kind = "update_manual_download_required" =>
       UNCHANGED <<updateStatus, updateProgress, isUpdating>>]_vars

\* The event has arrived during the installation.
C19_Witness ==
  /\ lastEvent.kind = "update_manual_download_required"
  /\ updateStatus = "installing"
  /\ updateProgress # Null
  /\ isUpdating

SegmentValue(seg) ==
  CASE seg = <<"0">> -> 0 [] seg = <<"9">> -> 9 [] seg = <<"1", "0">> -> 10

\* The same, a malformed segment counting as 0.
SegmentValueOrZero(seg) == IF seg \in NumericSegments THEN SegmentValue(seg) ELSE 0

Padded(segs, i, Value(_)) == IF i <= Len(segs) THEN Value(segs[i]) ELSE 0

\* The positions where the padded segments differ.
Differing(sa, sb, Value(_)) ==
  {i \in 1..Max(Len(sa), Len(sb)) : Padded(sa, i, Value) # Padded(sb, i, Value)}

First(S) == CHOOSE i \in S : \A j \in S : i <= j

WellFormed(in) ==
  /\ in.fn = "compareVersions"
  /\ Range(in.segsA) \cup Range(in.segsB) \subseteq NumericSegments

Compared == output.fn = "compareVersions"

\* C21: compareVersions returns 0 for two dotted numeric versions whose
\* segments, the shorter padded with zeros, are equal in value.
C21_PaddedEqualIsZero ==
  (Compared /\ WellFormed(input)
     /\ Differing(input.segsA, input.segsB, SegmentValue) = {}) => output.number = 0

\* 10.9 against 10.9.0.
C21_Witness ==
  /\ Compared
  /\ input.a = <<"1", "0", ".", "9">>
  /\ input.b = <<"1", "0", ".", "9", ".", "0">>
  /\ output.number = 0

\* C22: for two dotted numeric versions that differ, compareVersions is
\* decided by the first position where the padded segments differ in value:
\* -1 when a's is the smaller integer, 1 when it is the larger.
C22_FirstDifferenceDecides ==
  (Compared /\ WellFormed(input)
     /\ Differing(input.segsA, input.segsB, SegmentValue) # {}) =>
    LET i == First(Differing(input.segsA, input.segsB, SegmentValue))
    IN output.number =
         IF Padded(input.segsA, i, SegmentValue) < Padded(input.segsB, i, SegmentValue)
         THEN -1 ELSE 1

\* 10.9.0 against 10.10.0.
C22_Witness ==
  /\ Compared
  /\ input.a = <<"1", "0", ".", "9", ".", "0">>
  /\ input.b = <<"1", "0", ".", "1", "0", ".", "0">>
  /\ output.number = -1

\* C23: compareVersions returns a result for every pair of strings, and it
\* is the result of comparing them with every malformed segment taken as 0.
C23_MalformedIsZero ==
  (Compared /\ Range(input.segsA) \cup Range(input.segsB) \subseteq OtherSegments) =>
    LET diff == Differing(input.segsA, input.segsB, SegmentValueOrZero)
    IN output.number =
         IF diff = {} THEN 0
         ELSE IF Padded(input.segsA, First(diff), SegmentValueOrZero)
                   < Padded(input.segsB, First(diff), SegmentValueOrZero)
              THEN -1 ELSE 1

\* C24: loadCancelledVersions gives the set of the strings of a stored array
\* of strings, and the empty set for every other content of the slot.
C24_LoadNeverFails ==
  output.fn = "loadCancelledVersions" =>
    /\ input.slot.kind = "array" =>
         /\ Range(output.versions) = Range(input.slot.items)
         /\ Len(output.versions) = Cardinality(Range(input.slot.items))
    /\ input.slot.kind # "array" => output.versions = <<>>

\* C25: a dismissUpdate whose storage write failed completes all the same
\* (the prompt is closed), the version it dismissed is in the in-memory
\* ledger until the ledger is cleared or the process restarts, and
\* autoCheckUpdate does not show the prompt for it.
C25_FailedWriteStillSuppresses ==
  /\ [](\A v \in KnownVersions :
          ledgerHistory[v] = "session" => Has(cancelledVersions, v))
  /\ []((AutoCheck(lastReturn.obs) /\ ReportsUpdate(lastReturn.result)
           /\ lastReturn.obs.hist = "session") =>
          ~lastReturn.result.shown)
  /\ [][DismissUpdate => ~showUpdateModal']_vars

\* After a dismissal whose write failed, a fresh automatic check has resolved
\* the dismissed version and kept quiet.
C25_Witness ==
  /\ AutoCheck(lastReturn.obs)
  /\ ReportsUpdate(lastReturn.result)
  /\ lastReturn.obs.hist = "session"
  /\ lastReturn.obs.service # <<>>
  /\ storage = Absent
  /\ ~showUpdateModal

\* Saving the ledger twice, the writes faring alike, leaves what saving it
\* once leaves, and what a successful save wrote loads as the ledger.
SaveIsIdempotent ==
  \A w \in BOOLEAN :
    saveCancelledVersions(saveCancelledVersions(storage, cancelledVersions, w),
                          cancelledVersions, w)
      = saveCancelledVersions(storage, cancelledVersions, w)

SaveRoundTrips ==
  loadCancelledVersions(saveCancelledVersions(storage, cancelledVersions, TRUE))
    = cancelledVersions

AlreadyDismissed ==
  versionInfo # Null /\ Has(cancelledVersions, versionInfo[1].latest)

C27_LedgerFrame ==
  [][(cancelledVersions' # cancelledVersions \/ storage' # storage) =>
       \/ DismissUpdate
       \/ \E p \in Tasks : ManualCheckUpdate(p)]_vars

\* An automatic check has answered from the cache while the slot lags behind
\* the ledger.
C27_Witness ==
  /\ lastReturn.obs.op = "autoCheckUpdate"
  /\ lastReturn.obs.service = <<>>
  /\ lastReturn.result.info # Null
  /\ cancelledVersions = <<VersionX>>
  /\ storage = Absent

\* The availability check of an admitted performOneClickUpdate call has
\* heard from neither channel: the Update Service failed and so did GitHub.
BothChannelsFailed(o) ==
  Reverified(o) /\ o.service = <<FALSE>> /\ o.github = <<FALSE>>

\* C28: a performOneClickUpdate call whose availability check failed on both
\* channels ends in an outcome other than the one of a check that answered
\* that no update is available.
C28_NoInformationIsDistinct ==
  BothChannelsFailed(lastReturn.obs) =>
    /\ lastReturn.result.kind = "rejected"
    /\ lastReturn.result # Rejected(NoUpdateError)

\* C29: a call that waits for a channel that never answers goes on in the
\* end: checkLatestVersion leaves isChecking false, and performOneClickUpdate
\* leaves updateStatus at error.
C29_SilentChannelTimesOut ==
  /\ (InProgress(1, "checkLatestVersion") /\ Unanswered(1)) ~> ~isChecking
  /\ (InProgress(1, "performOneClickUpdate") /\ Unanswered(1)) ~> updateStatus = "error"

\* A version check is started.
CheckStarts ==
  \E p \in Tasks :
    \/ CheckLatestVersion(p)
    \/ AutoCheckUpdate(p)
    \/ SilentCheckUpdate(p)
    \/ ManualCheckUpdate(p)

\* C30: a version check that is started after an update ended, updateStatus
\* being completed or error, takes updateStatus back to idle.
C30_CheckResetsUpdateState ==
  [][(CheckStarts /\ ~isUpdating /\ updateStatus \in {"completed", "error"})
       => updateStatus' = "idle"]_vars

\* The step ends an admitted performOneClickUpdate call in the state checking,
\* its availability check having found nothing to install: no update is
\* available, or neither channel answered.
NothingFound ==
  /\ updateStatus = "checking"
  /\ Reverified(lastReturn'.obs)
  /\ ~Last(lastReturn'.obs.offer)

\* C31 as stated: when the state is checking and the check finds no available
\* update or fails, updateStatus returns to idle.
C31_NothingFoundReturnsToIdle ==
  [][NothingFound => updateStatus' = "idle"]_vars

\* C31, amended: when the state is checking and the check finds no available
\* update or fails, updateStatus becomes error and isUpdating false.
C31_NothingFoundEndsInError ==
  [][NothingFound => (updateStatus' = "error" /\ ~isUpdating')]_vars

\* The Update Service answered that no update is available, and the call
\* has ended in error.
C31_Witness ==
  /\ Reverified(lastReturn.obs)
  /\ lastReturn.obs.service = <<TRUE>>
  /\ lastReturn.obs.offer = <<FALSE>>
  /\ lastReturn.obs.invoked = 0
  /\ updateStatus = "error"
  /\ ~isUpdating

\* In this step a channel answers task p with a failure.
FailedAnswer(p) ==
  LET o == IF lastReturn'.task = p THEN lastReturn'.obs ELSE obs'[p]
  IN \/ Len(o.service) = Len(obs[p].service) + 1 /\ ~Last(o.service)
     \/ Len(o.github) = Len(obs[p].github) + 1 /\ ~Last(o.github)

\* The records a resolution builds from the answer ans of a channel.
BuiltFromService(ans) == {mapUpdateInfoToVersionInfo(ans.info)}
BuiltFromGithub(ans) ==
  {GithubInfo(ans.tag, ans.appInfoOk),
   mapUpdateInfoToVersionInfo(FallbackUpdateInfo(GithubInfo(ans.tag, ans.appInfoOk)))}

\* In this step task p's resolution caches a record built wholly from the
\* answer of the channel it was waiting for.
CachesBuiltRecord(p) ==
  \/ /\ AwaitingAt(p, "cft_invoke")
     /\ \E ans \in ServiceOutcomes :
          ans.ok /\ versionInfo' \in {Some(r) : r \in BuiltFromService(ans)}
  \/ /\ AwaitingAt(p, "gh_fetch")
     /\ \E ans \in GithubOutcomes :
          ans.ok /\ versionInfo' \in {Some(r) : r \in BuiltFromGithub(ans)}

\* C32: a failing answer of a channel leaves versionInfo and lastCheckTime as
\* they were, so a resolution in which both channels fail changes neither;
\* versionInfo and lastCheckTime change only when a channel answers, and
\* then versionInfo is the record built from that answer, whatever was cached.
C32_CacheReplacedAsAWhole ==
  [][/\ \A p \in Tasks : FailedAnswer(p) => UNCHANGED <<versionInfo, lastCheckTime>>
     /\ (versionInfo' # versionInfo \/ lastCheckTime' # lastCheckTime) =>
          /\ \E p \in Tasks : CachesBuiltRecord(p)
          /\ lastCheckTime' = Some(now)]_vars

\* An hour after a successful check, a resolution has failed on both
\* channels; the cache is the one of the earlier check.
C32_Witness ==
  /\ lastReturn.obs.op = "checkLatestVersion"
  /\ lastReturn.obs.service = <<FALSE>>
  /\ lastReturn.obs.github = <<FALSE, FALSE>>
  /\ lastReturn.result.info = Null
  /\ versionInfo # Null
  /\ lastCheckTime = Some(0)
  /\ now = 1

\* The last successful check is less than an hour old.
WithinTheHour == lastCheckTime # Null /\ now - lastCheckTime[1] < StalenessWindow

\* The cached record reports an update whose version is not in the ledger.
CacheOffers ==
  /\ versionInfo # Null
  /\ versionInfo[1].hasUpdate
  /\ ~Has(cancelledVersions, versionInfo[1].latest)

\* C33: an autoCheckUpdate call made within the hour returns at once, having
\* asked neither channel and changed nothing but showUpdateModal, which it
\* sets only if the prompt was hidden and the cache reports an update whose
\* version is not in the ledger; lastCheckTime is set only to the time at
\* which a channel answers successfully.
C33_CachedWithinTheHour ==
  [][/\ \A p \in Tasks :
          (AutoCheckUpdate(p) /\ WithinTheHour) =>
            /\ stack'[p] = <<>>
            /\ lastReturn'.task = p
            /\ lastReturn'.obs.service = <<>> /\ lastReturn'.obs.github = <<>>
            /\ UNCHANGED <<versionInfo, lastCheckTime, isChecking, cancelledVersions,
                           storage>>
            /\ showUpdateModal => showUpdateModal'
            /\ (showUpdateModal' /\ ~showUpdateModal) => CacheOffers
            /\ lastReturn'.result.shown = (showUpdateModal' /\ ~showUpdateModal)
     /\ (lastCheckTime' # lastCheckTime /\ lastCheckTime' # Null) =>
          /\ \E p \in Tasks : CachesBuiltRecord(p)
          /\ lastCheckTime' = Some(now)]_vars

\* Within the hour of the check that found it, the version was dismissed
\* and the ledger cleared again; an automatic check has shown the prompt from
\* the cache.
C33_Witness ==
  /\ AutoCheck(lastReturn.obs)
  /\ lastReturn.obs.service = <<>>
  /\ lastReturn.obs.github = <<>>
  /\ lastReturn.result.shown
  /\ showUpdateModal
  /\ WithinTheHour
  /\ CacheOffers

\* The step is one of task p's silentCheckUpdate call: its start, or a turn
\* in which it goes on.
SilentStep(p) ==
  \/ SilentCheckUpdate(p)
  \/ InProgress(p, "silentCheckUpdate") /\ stack'[p] # stack[p]

\* C34: no step of a silentCheckUpdate call changes showUpdateModal, whatever
\* the channels answer.
C34_SilentNeverShows ==
  [][\A p \in Tasks : SilentStep(p) => showUpdateModal' = showUpdateModal]_vars

\* A silent check has reported an update, and the prompt is hidden.
C34_Witness ==
  /\ lastReturn.obs.op = "silentCheckUpdate"
  /\ lastReturn.obs.service # <<>>
  /\ lastReturn.result.flag
  /\ versionInfo # Null /\ versionInfo[1].hasUpdate
  /\ ~showUpdateModal

\* The states of an update in progress.
ActiveStates == {"checking", "downloading", "installing"}

\* C35: whenever isUpdating is false, updateStatus is idle, completed or
\* error: in checking, downloading and installing the guard of
\* performOneClickUpdate turns a new call away.
C35_ActiveOnlyWhileUpdating ==
  /\ ~isUpdating => updateStatus \notin ActiveStates
  /\ updateStatus \in ActiveStates =>
       \E p \in Tasks : InProgress(p, "performOneClickUpdate") /\ ~obs[p].busy

\* A new call has been turned away while the update was installing.
C35_Witness ==
  /\ UpdateCall(lastReturn.obs) /\ lastReturn.obs.busy
  /\ lastReturn.obs.invoked = 0
  /\ updateStatus = "installing"
  /\ isUpdating

SilentInProgress == \E p \in Tasks : InProgress(p, "silentCheckUpdate")

\* C36: automatic checking is disabled exactly while a silentCheckUpdate call
\* is in progress: once all silent checks have returned, in whatever order
\* they and the other checks were interleaved, autoCheckEnabled is true, as
\* it was before the first of them.
C36_SilentRestoresAutoCheck ==
  autoCheckEnabled = ~SilentInProgress

\* A silent check that started during another one's resolution has returned
\* at once; the first is still waiting for its answer.
C36_Witness ==
  /\ lastReturn.obs.op = "silentCheckUpdate"
  /\ lastReturn.obs.service = <<>>
  /\ SilentInProgress
  /\ isChecking
  /\ ~autoCheckEnabled

\* C37: once a resolution has cached a record (lastCheckTime is set), no
\* step of a getVersionInfo call changes versionInfo.
C37_PlaceholderNeverReplaces ==
  [][\A p \in Tasks :
       (lastCheckTime # Null /\ InProgress(p, "getVersionInfo") /\ stack'[p] # stack[p])
         => versionInfo' = versionInfo]_vars

\* C38: autoCheckUpdate does not return true when the latest version of the
\* record it decided on is in the ledger, on the cached path as on the
\* fresh one.
C38_NeverTrueForDismissed ==
  (AutoCheck(lastReturn.obs) /\ lastReturn.result.flag) =>
    /\ lastReturn.result.info # Null
    /\ ~Has(cancelledVersions, lastReturn.result.info[1].latest)

\* The requests task p's call has sent to the Update Service and to the
\* Public Release API: those answered and the one in flight.
ServiceRequests(p) ==
  Len(obs[p].service) + (IF AwaitingAt(p, "cft_invoke") THEN 1 ELSE 0)
GithubRequests(p) ==
  Len(obs[p].github) + (IF AwaitingAt(p, "gh_fetch") THEN 1 ELSE 0)

\* C39: a checkLatestVersion call sends at most one request to the Update
\* Service and at most one to the Public Release API.
C39_OneRequestPerChannel ==
  \A p \in Tasks :
    InProgress(p, "checkLatestVersion") =>
      ServiceRequests(p) <= 1 /\ GithubRequests(p) <= 1

\* C40: whenever the prompt is showing, the cached record exists, reports an
\* update, and its latest version is not in the ledger.
C40_PromptMatchesCache ==
  showUpdateModal =>
    /\ versionInfo # Null
    /\ versionInfo[1].hasUpdate
    /\ ~Has(cancelledVersions, versionInfo[1].latest)

====
